---- MODULE Spec2Model ----
(***************************************************************************)
(* kontrolleur: inspects the import section of a wasm binary and reports   *)
(* which WASI resource types the binary assumes.  The model follows        *)
(* src/main.rs: main (read, deserialize, classification loop, report),     *)
(* WasiAssumptions, Assumptions and report.                                *)
(***************************************************************************)
EXTENDS Integers, Sequences, FiniteSets, TLC

\* Longest import section drawn for the behavioural specification.
MaxImports == 3
\* Longest import section drawn for the whole-table specification.
MaxTableImports == 1

(***************************************************************************)
(* The match arms of WasiAssumptions::add.                                 *)
(***************************************************************************)
EnvironmentArm ==
    {"args_get", "args_sizes_get", "clock_res_get", "clock_time_get",
     "random_get", "environ_get", "environ_sizes_get"}

FileSystemArm ==
    {"fd_advise", "fd_close", "fd_datasync", "fd_fdstat_get",
     "fd_fdstat_set_flags", "fd_fdstat_set_rights", "fd_filestat_get",
     "fd_filestat_set_size", "fd_filestat_set_times", "fd_pread",
     "fd_prestat_get", "fd_prestat_dir_name", "fd_pwrite", "fd_read",
     "fd_readdir", "fd_renumber", "fd_seek", "fd_sync", "fd_tell",
     "fd_write", "path_create_directory", "path_filestat_get",
     "path_filestat_set_times", "path_link", "path_open", "path_readlink",
     "path_remove_directory", "path_rename", "path_symlink",
     "path_unlink_file", "poll_oneoff"}

ProcessArm == {"proc_exit", "proc_raise", "sched_yield"}

NetworkArm == {"sock_recv", "sock_send", "sock_shutdown"}

(***************************************************************************)
(* Inputs.  An import entry is (module, field); the import kind is never   *)
(* read by main.  A file is unreadable, malformed (deserialize_buffer      *)
(* returns Err) or a module whose import section is absent (<<>>) or       *)
(* present (<<entries>>).                                                  *)
(***************************************************************************)
ImportEntries(ns, syms) == [module : ns, field : syms]

\* Imports of the behavioural specification: two symbols of one WASI arm,
\* one of each other arm, one unlisted WASI symbol, and two foreign
\* namespaces carrying a listed and an unlisted symbol.
Imports ==
    ImportEntries({"wasi_unstable"},
                  {"fd_write", "path_open", "sched_yield", "sock_recv",
                   "clock_time_get", "sock_accept"})
    \cup ImportEntries({"env", "wasi_snapshot_preview1"},
                       {"fd_write", "custom_log"})

\* Imports of the whole-table specification: every symbol of every arm.
TableImports ==
    ImportEntries({"wasi_unstable", "env"},
                  EnvironmentArm \cup FileSystemArm \cup ProcessArm
                      \cup NetworkArm \cup {"sock_accept", "custom_log"})

SeqsUpTo(S, n) == UNION {[1..k -> S] : k \in 0..n}

Files(imports, n) ==
    {[kind |-> "unreadable", import_section |-> <<>>],
     [kind |-> "malformed", import_section |-> <<>>],
     [kind |-> "module", import_section |-> <<>>]}
    \cup {[kind |-> "module", import_section |-> <<s>>] :
             s \in SeqsUpTo(imports, n)}

VARIABLES pc, file, options, contents, entries, idx, assumptions, out, exit

vars == <<pc, file, options, contents, entries, idx, assumptions, out, exit>>

(***************************************************************************)
(* WasiAssumptions and Assumptions.                                        *)
(***************************************************************************)
WasiAssumptionsNew ==
    [file_system |-> <<>>, environment |-> <<>>, process |-> <<>>,
     network |-> <<>>, unknown |-> <<>>]

AssumptionsNew == [wasi |-> WasiAssumptionsNew, unknown |-> <<>>]

\* Variant: the catch-all arm discards the name.
WasiAddDrop(w, name) ==
    IF name \in EnvironmentArm THEN [w EXCEPT !.environment = Append(@, name)]
    ELSE IF name \in FileSystemArm THEN [w EXCEPT !.file_system = Append(@, name)]
    ELSE IF name \in ProcessArm THEN [w EXCEPT !.process = Append(@, name)]
    ELSE IF name \in NetworkArm THEN [w EXCEPT !.network = Append(@, name)]
    ELSE w

\* Variant: the network arm is missing.
WasiAddNoNetwork(w, name) ==
    IF name \in EnvironmentArm THEN [w EXCEPT !.environment = Append(@, name)]
    ELSE IF name \in FileSystemArm THEN [w EXCEPT !.file_system = Append(@, name)]
    ELSE IF name \in ProcessArm THEN [w EXCEPT !.process = Append(@, name)]
    ELSE [w EXCEPT !.unknown = Append(@, name)]

\* Variant: names are inserted at the front of the vector.
WasiAddFront(w, name) ==
    IF name \in EnvironmentArm THEN [w EXCEPT !.environment = <<name>> \o @]
    ELSE IF name \in FileSystemArm THEN [w EXCEPT !.file_system = <<name>> \o @]
    ELSE IF name \in ProcessArm THEN [w EXCEPT !.process = <<name>> \o @]
    ELSE IF name \in NetworkArm THEN [w EXCEPT !.network = <<name>> \o @]
    ELSE [w EXCEPT !.unknown = <<name>> \o @]

WasiAdd(w, name) ==
    IF name \in EnvironmentArm THEN [w EXCEPT !.environment = Append(@, name)]
    ELSE IF name \in FileSystemArm THEN [w EXCEPT !.file_system = Append(@, name)]
    ELSE IF name \in ProcessArm THEN [w EXCEPT !.process = Append(@, name)]
    ELSE IF name \in NetworkArm THEN [w EXCEPT !.network = Append(@, name)]
    ELSE [w EXCEPT !.unknown = Append(@, name)]

WasiCount(w) ==
    Len(w.file_system) + Len(w.process) + Len(w.environment)
        + Len(w.network) + Len(w.unknown)

add_wasi(a, name) == [a EXCEPT !.wasi = WasiAdd(@, name)]

add_unknown(a, name) == [a EXCEPT !.unknown = Append(@, name)]

Count(a) == Len(a.unknown) + WasiCount(a.wasi)

\* Variant: a listed WASI symbol is classified whatever its namespace.
ClassifyBySymbol(a, import) ==
    IF \/ import.module = "wasi_unstable"
       \/ import.field \in EnvironmentArm \cup FileSystemArm \cup ProcessArm \cup NetworkArm
    THEN add_wasi(a, import.field)
    ELSE add_unknown(a, import.field)

\* Variant: the fallback arm records import.module().
ClassifyNamespace(a, import) ==
    IF import.module = "wasi_unstable"
    THEN add_wasi(a, import.field)
    ELSE add_unknown(a, import.module)

\* The body of the loop in main: match import.module().
Classify(a, import) ==
    IF import.module = "wasi_unstable"
    THEN add_wasi(a, import.field)
    ELSE add_unknown(a, import.field)

(***************************************************************************)
(* report.  A printed line is the tuple of the pieces println! formats.    *)
(***************************************************************************)
correct_to_be_form(count) == IF count = 1 THEN "is" ELSE "are"

optional_s(count) == IF count = 1 THEN "" ELSE "s"

RECURSIVE Join(_, _)
Join(strs, sep) ==
    IF Len(strs) = 0 THEN <<>>
    ELSE IF Len(strs) = 1 THEN <<strs[1]>>
    ELSE <<strs[1], sep>> \o Join(Tail(strs), sep)

CallLines(indent, calls) == [i \in 1..Len(calls) |-> <<indent, calls[i]>>]

Section(header, indent, calls) ==
    IF Len(calls) > 0 THEN <<header>> \o CallLines(indent, calls) ELSE <<>>

ResourceTypes(w) ==
    (IF Len(w.file_system) > 0 THEN <<"file system">> ELSE <<>>)
    \o (IF Len(w.environment) > 0 THEN <<"environment">> ELSE <<>>)
    \o (IF Len(w.process) > 0 THEN <<"process">> ELSE <<>>)

TypesHeader == <<"\tThe following system resource types are used:">>

UnknownHeader == <<"Unknown imports:">>

WasiReport(w, verbose) ==
    LET wasi_count == WasiCount(w)
        unknown_count == Len(w.unknown)
    IN  IF wasi_count > 0
        THEN << <<"This binary is expecting a WASI compliant runtime.">>,
                <<"\tThe binary uses ", ToString(wasi_count), " WASI call",
                  optional_s(wasi_count)>>,
                TypesHeader,
                <<"\t\t">> \o Join(ResourceTypes(w), ", ") >>
             \o (IF verbose
                 THEN Section(<<"\tFile system calls:">>, "\t\t", w.file_system)
                      \o Section(<<"\tEnivronent system calls:">>, "\t\t", w.environment)
                      \o Section(<<"\tProcess system calls:">>, "\t\t", w.process)
                 ELSE <<>>)
             \o Section(<<"There ", correct_to_be_form(unknown_count), " ",
                          ToString(unknown_count), " unknown wasi sys call",
                          optional_s(unknown_count), ":">>,
                        "\t", w.unknown)
        ELSE <<>>

report(a, verbose) ==
    LET total_count == Count(a)
    IN  << <<"There ", correct_to_be_form(total_count), " ",
             ToString(total_count), " total external API call",
             optional_s(total_count), ".">> >>
        \o WasiReport(a.wasi, verbose)
        \o Section(UnknownHeader, "\t", a.unknown)

(***************************************************************************)
(* main.                                                                   *)
(***************************************************************************)
InitWith(fs) ==
    /\ pc = "start"
    /\ file \in fs
    /\ options \in [verbose : BOOLEAN]
    /\ contents = <<>>
    /\ entries = <<>>
    /\ idx = 0
    /\ assumptions = AssumptionsNew
    /\ out = <<>>
    /\ exit = "running"

Init == InitWith(Files(Imports, MaxImports))

TableInit == InitWith(Files(TableImports, MaxTableImports))

\* read(options.file).expect("Failed to read file")
ReadFile ==
    /\ pc = "start"
    /\ IF file.kind = "unreadable"
       THEN /\ pc' = "panicked"
            /\ exit' = "panic"
            /\ UNCHANGED contents
       ELSE /\ pc' = "decode"
            /\ contents' = <<file>>
            /\ UNCHANGED exit
    /\ UNCHANGED <<file, options, entries, idx, assumptions, out>>

\* Variant: unwrap_or_default() in place of unwrap().
DecodeOrDefault ==
    /\ pc = "decode"
    /\ pc' = "loop"
    /\ entries' = contents[1].import_section
    /\ UNCHANGED <<file, options, contents, idx, assumptions, out, exit>>

\* Variant: import_section().expect(..) in place of the Option.
DecodeExpectImports ==
    /\ pc = "decode"
    /\ IF contents[1].kind = "malformed" \/ Len(contents[1].import_section) = 0
       THEN /\ pc' = "panicked"
            /\ exit' = "panic"
            /\ UNCHANGED entries
       ELSE /\ pc' = "loop"
            /\ entries' = contents[1].import_section
            /\ UNCHANGED exit
    /\ UNCHANGED <<file, options, contents, idx, assumptions, out>>

\* deserialize_buffer::<Module>(&contents).unwrap(), then
\* module.import_section().map(|s| s.entries())
Decode ==
    /\ pc = "decode"
    /\ IF contents[1].kind = "malformed"
       THEN /\ pc' = "panicked"
            /\ exit' = "panic"
            /\ UNCHANGED entries
       ELSE /\ pc' = "loop"
            /\ entries' = contents[1].import_section
            /\ UNCHANGED exit
    /\ UNCHANGED <<file, options, contents, idx, assumptions, out>>

\* One iteration of `for import in entries`.
LoopStep ==
    /\ pc = "loop"
    /\ Len(entries) = 1
    /\ idx < Len(entries[1])
    /\ assumptions' = Classify(assumptions, entries[1][idx + 1])
    /\ idx' = idx + 1
    /\ UNCHANGED <<pc, file, options, contents, entries, out, exit>>

\* The iterator is exhausted, or entries is None.
LoopExit ==
    /\ pc = "loop"
    /\ Len(entries) = 1 => idx = Len(entries[1])
    /\ pc' = "report"
    /\ UNCHANGED <<file, options, contents, entries, idx, assumptions, out, exit>>

\* report(assumptions, options.verbose), then main returns.
Report ==
    /\ pc = "report"
    /\ out' = report(assumptions, options.verbose)
    /\ pc' = "done"
    /\ exit' = "ok"
    /\ UNCHANGED <<file, options, contents, entries, idx, assumptions>>

Next == ReadFile \/ Decode \/ LoopStep \/ LoopExit \/ Report

Spec == Init /\ [][Next]_vars

TableSpec == TableInit /\ [][Next]_vars

(***************************************************************************)
(* Vocabulary of the properties.                                           *)
(***************************************************************************)
\* The import records of the file (empty when it has no import section).
InputRecords ==
    IF file.kind = "module" /\ Len(file.import_section) = 1
    THEN file.import_section[1]
    ELSE <<>>

\* The records the loop has consumed so far.
Processed ==
    IF Len(entries) = 1 THEN SubSeq(entries[1], 1, idx) ELSE <<>>

Buckets ==
    {"file_system", "environment", "process", "network", "unknown",
     "unknown_namespace"}

BucketSeq(a, b) == IF b = "unknown_namespace" THEN a.unknown ELSE a.wasi[b]

\* The fixed classification table as the specification lists it.
FixedTable ==
    [environment |->
        {"args_get", "args_sizes_get", "clock_res_get", "clock_time_get",
         "random_get", "environ_get", "environ_sizes_get"},
     file_system |->
        {"fd_advise", "fd_close", "fd_datasync", "fd_fdstat_get",
         "fd_fdstat_set_flags", "fd_fdstat_set_rights", "fd_filestat_get",
         "fd_filestat_set_size", "fd_filestat_set_times", "fd_pread",
         "fd_prestat_get", "fd_prestat_dir_name", "fd_pwrite", "fd_read",
         "fd_readdir", "fd_renumber", "fd_seek", "fd_sync", "fd_tell",
         "fd_write", "path_create_directory", "path_filestat_get",
         "path_filestat_set_times", "path_link", "path_open",
         "path_readlink", "path_remove_directory", "path_rename",
         "path_symlink", "path_unlink_file", "poll_oneoff"},
     process |-> {"proc_exit", "proc_raise", "sched_yield"},
     network |-> {"sock_recv", "sock_send", "sock_shutdown"}]

TableBucket(symbol) ==
    IF \E b \in DOMAIN FixedTable : symbol \in FixedTable[b]
    THEN CHOOSE b \in DOMAIN FixedTable : symbol \in FixedTable[b]
    ELSE "unknown"

ExpectedBucket(import) ==
    IF import.module = "wasi_unstable"
    THEN TableBucket(import.field)
    ELSE "unknown_namespace"

\* A loop iteration: the record it consumes is entries[1][idx + 1].
Iteration == pc = "loop" /\ idx' = idx + 1

(***************************************************************************)
(* C1: every loop iteration lengthens exactly one of the six buckets by    *)
(* one and leaves the other five as they were; the total count always      *)
(* equals the number of records consumed, and once the loop is over it     *)
(* equals the number of input records.                                     *)
(***************************************************************************)
C1_Totality ==
    [][ /\ Count(assumptions') = idx'
        /\ pc' \in {"report", "done"} => Count(assumptions') = Len(InputRecords')
        /\ Iteration =>
             \E b \in Buckets :
                /\ Len(BucketSeq(assumptions', b)) = Len(BucketSeq(assumptions, b)) + 1
                /\ \A c \in Buckets \ {b} :
                      BucketSeq(assumptions', c) = BucketSeq(assumptions, c) ]_vars

\* A finished run over a section holding the same record twice.
C1_Witness ==
    /\ pc = "done"
    /\ Count(assumptions) >= 2
    /\ \E i, j \in 1..Len(InputRecords) : i # j /\ InputRecords[i] = InputRecords[j]

(***************************************************************************)
(* C2: an iteration over a wasi_unstable import appends its symbol to the  *)
(* bucket the fixed table assigns to the symbol and to no other; that      *)
(* bucket is the unknown-WASI one exactly when the symbol is in none of    *)
(* the four lists, whose sizes are 7, 31, 3 and 3.                         *)
(***************************************************************************)
C2_TablePlacement ==
    [][ (Iteration /\ entries[1][idx + 1].module = "wasi_unstable") =>
          LET import == entries[1][idx + 1]
              b == TableBucket(import.field)
          IN  /\ assumptions' =
                    [assumptions EXCEPT !.wasi[b] = Append(@, import.field)]
              /\ b = "unknown" <=>
                    import.field \notin
                        EnvironmentArm \cup FileSystemArm \cup ProcessArm \cup NetworkArm
              /\ Cardinality(EnvironmentArm) = 7
              /\ Cardinality(FileSystemArm) = 31
              /\ Cardinality(ProcessArm) = 3
              /\ Cardinality(NetworkArm) = 3 ]_vars

\* sock_accept under wasi_unstable ended in the unknown-WASI bucket.
C2_Witness ==
    /\ pc = "done"
    /\ InputRecords = <<[module |-> "wasi_unstable", field |-> "sock_accept"]>>
    /\ assumptions.wasi.unknown = <<"sock_accept">>

(***************************************************************************)
(* C3: an iteration over an import whose namespace is not wasi_unstable    *)
(* lengthens the unknown-namespace bucket by one and leaves the five WASI  *)
(* buckets unchanged, whatever the symbol.                                 *)
(***************************************************************************)
C3_ForeignNamespace ==
    [][ (Iteration /\ entries[1][idx + 1].module # "wasi_unstable") =>
          /\ Len(assumptions'.unknown) = Len(assumptions.unknown) + 1
          /\ assumptions'.wasi = assumptions.wasi ]_vars

\* ("env", "fd_write") was classified and the file-system bucket is empty.
C3_Witness ==
    /\ pc = "done"
    /\ \E i \in 1..Len(InputRecords) :
          InputRecords[i] = [module |-> "env", field |-> "fd_write"]
    /\ assumptions.wasi.file_system = <<>>
    /\ Len(assumptions.unknown) > 0

RECURSIVE Assigned(_, _)
\* The records of a sequence the rule assigns to bucket b, in order.
Assigned(records, b) ==
    IF Len(records) = 0 THEN <<>>
    ELSE (IF ExpectedBucket(Head(records)) = b THEN <<Head(records)>> ELSE <<>>)
         \o Assigned(Tail(records), b)

FieldsOf(records) == [i \in 1..Len(records) |-> records[i].field]

ModulesOf(records) == [i \in 1..Len(records) |-> records[i].module]

\* The last n lines of the report.
LastLines(n) == SubSeq(out, Len(out) - n + 1, Len(out))

C5_DecodeErrorIsValue ==
    file.kind = "malformed" =>
       /\ exit # "panic"
       /\ pc \notin {"start", "decode"} => exit = "error"

(***************************************************************************)
(* C6: in a run whose decoding fails no import is ever added to a bucket,  *)
(* the loop and the report step are never reached and nothing is printed.  *)
(***************************************************************************)
C6_DecodeErrorAborts ==
    file.kind = "malformed" =>
       /\ pc \in {"start", "decode", "panicked"}
       /\ assumptions = AssumptionsNew
       /\ idx = 0
       /\ out = <<>>
       /\ exit # "ok"

\* Decoding has failed and the run is over.
C6_Witness == file.kind = "malformed" /\ pc = "panicked"

(***************************************************************************)
(* C7: at every point of the loop each bucket holds, in their original     *)
(* order, the symbols of exactly the consumed records assigned to it, and  *)
(* after the loop the consumed records are all the input records; the      *)
(* buckets are therefore a function of the import sequence alone.          *)
(***************************************************************************)
C7_FileOrder ==
    /\ \A b \in Buckets :
          BucketSeq(assumptions, b) = FieldsOf(Assigned(Processed, b))
    /\ pc \in {"report", "done"} => Processed = InputRecords

\* A finished run with two different symbols in one WASI bucket.
C7_Witness ==
    /\ pc = "done"
    /\ Len(assumptions.wasi.file_system) >= 2
    /\ assumptions.wasi.file_system[1] # assumptions.wasi.file_system[2]

(***************************************************************************)
(* C8: a module without import section, or with an empty one, never        *)
(* panics, runs no loop iteration, keeps every bucket empty, and can stop  *)
(* only after the report, which shows a total count of 0.                  *)
(***************************************************************************)
C8_NoImports ==
    (file.kind = "module" /\ Len(InputRecords) = 0) =>
       /\ pc # "panicked"
       /\ exit # "panic"
       /\ idx = 0
       /\ assumptions = AssumptionsNew
       /\ Count(assumptions) = 0
       /\ ENABLED Next \/ pc = "done"
       /\ pc = "done" =>
             /\ exit = "ok"
             /\ out = << <<"There ", "are", " ", "0",
                           " total external API call", "s", ".">> >>

\* The report was printed for a module without import section.
C8_Witness ==
    /\ pc = "done"
    /\ file.kind = "module"
    /\ file.import_section = <<>>
    /\ Len(out) = 1

\* The resource types the report names on the line after TypesHeader.
ReportedTypes ==
    IF \E i \in 1..(Len(out) - 1) : out[i] = TypesHeader
    THEN LET i == CHOOSE k \in 1..(Len(out) - 1) : out[k] = TypesHeader
         IN  {out[i + 1][k] : k \in 2..Len(out[i + 1])} \ {", "}
    ELSE {}

(***************************************************************************)
(* C9: when at least one wasi_unstable import was classified, the report   *)
(* names each of file system, environment, process and network among the   *)
(* used resource types exactly when its bucket is not empty.               *)
(***************************************************************************)
C9_TypesReported ==
    (pc = "done" /\ WasiCount(assumptions.wasi) > 0) =>
       /\ "file system" \in ReportedTypes <=> Len(assumptions.wasi.file_system) > 0
       /\ "environment" \in ReportedTypes <=> Len(assumptions.wasi.environment) > 0
       /\ "process" \in ReportedTypes <=> Len(assumptions.wasi.process) > 0
       /\ "network" \in ReportedTypes <=> Len(assumptions.wasi.network) > 0

====
